---- MODULE Spec2Model ----
(***************************************************************************)
(* Build-order schedulers of solver-lnk: the greedy discrete-event         *)
(* simulation (GreedySolver) and the CP-SAT dual-queue formulation         *)
(* (CPSATDualQueueSolver), over the shared data model of                   *)
(* solver_lnk.models.                                                      *)
(*                                                                         *)
(* Resource quantities are Python floats in the source.  Here they are     *)
(* exact rationals stored as integers in units of 1/Scale of a resource    *)
(* unit: one minute at a rate of r per hour yields r such units.           *)
(* Production rates, costs, capacities and initial quantities are          *)
(* integers.  Times of the simulation are minutes, times of recorded       *)
(* actions are seconds, as in the source.                                  *)
(***************************************************************************)
EXTENDS Integers, Sequences, FiniteSets, TLC

VARIABLES
    buildings,          \* catalog: BuildingType -> Building (partial)
    technologies,       \* catalog: technology name -> Technology (partial)
    initial_state,      \* GameState handed to the solver
    target_levels,      \* BuildingType -> target level (partial)
    time_scale_minutes, \* CPSATDualQueueSolver.time_scale_minutes
    solver,             \* which scheduler runs: "greedy" or "cpsat"
    state,              \* SimulationState of GreedySolver.solve
    upgrade_queue,      \* the greedy work-list of <<building, target level>>
    pc,                 \* "loop" while solve runs, "returned" afterwards
    solution,           \* the returned Solution, NoSolution before / for None
    branch,             \* history: the branch the last step of solve took
    stalled,            \* history: some loop iteration changed neither state nor work-list
    overdrawn,          \* history: some deduction took more than was available
    insertions,         \* history: the prerequisite steps put in front of the work-list
    game,               \* the GameState the methods of the data model are called on
    calls,              \* number of method calls made on game
    chronological       \* the last result of Solution.get_all_actions_chronological

vars == <<buildings, technologies, initial_state, target_levels,
          time_scale_minutes, solver, state, upgrade_queue, pc, solution,
          branch, stalled, overdrawn, insertions, game, calls,
          chronological>>

inputs == <<buildings, technologies, initial_state, target_levels,
            time_scale_minutes, solver>>

models == <<game, calls, chronological>>

-----------------------------------------------------------------------------
(* Data model (solver_lnk/models/__init__.py)                              *)

ResourceType == {"wood", "stone", "iron", "food"}

\* dict order of a costs mapping as the loader builds it
ResOrder == <<"wood", "stone", "iron", "food">>

BuildingType ==
    {"lumberjack", "quarry", "ore_mine", "farm", "wood_store", "stone_store",
     "ore_store", "keep", "castle", "arsenal", "tavern", "library", "market",
     "fortifications"}

\* Python None for an optional number
NONE == -1

\* no technology prerequisite / no step / no solution
NoTech == "none"
NoStep == <<"none", 0>>
NoSolution == [kind |-> "none"]

Scale == 60
DefaultCap == 999999
DefaultFoodCap == 40
SearchLimit == 31

Min(S) == CHOOSE x \in S : \A y \in S : x <= y
Max(S) == CHOOSE x \in S : \A y \in S : x >= y
MinOf(a, b) == IF a <= b THEN a ELSE b
MaxOf(a, b) == IF a >= b THEN a ELSE b

\* dict.get(key, default)
Get(f, k, d) == IF k \in DOMAIN f THEN f[k] ELSE d

\* dict[key] = value
Put(f, k, v) == [x \in DOMAIN f \cup {k} |-> IF x = k THEN v ELSE f[x]]

\* list.pop(idx), idx counted from 1
Pop(q, idx) == [i \in 1..(Len(q) - 1) |-> IF i < idx THEN q[i] ELSE q[i + 1]]

\* Building.get_level_data(level) is not None
HasLevel(b, level) == level \in DOMAIN b.levels

\* the building prerequisites of can_upgrade_to (lines 93-97): every
\* prerequisite building has its minimum level, an unbuilt one counting as 0
PrerequisitesMet(b, target_level, current_buildings) ==
    \A req \in DOMAIN Get(b.prerequisites, target_level, <<>>) :
        Get(current_buildings, req, 0) >= b.prerequisites[target_level][req]

\* Building.can_upgrade_to without researched_technologies (lines 83-97)
CanUpgradeTo(b, target_level, current_buildings) ==
    /\ ~(target_level > b.max_level \/ target_level < 1)
    /\ PrerequisitesMet(b, target_level, current_buildings)

BuildingUpgradeAction(bt, from, to, start, end, costs) ==
    [building_type |-> bt, from_level |-> from, to_level |-> to,
     start_time |-> start, end_time |-> end, costs |-> costs]

LibraryResearchAction(from, to, start, end, costs, techs) ==
    [from_level |-> from, to_level |-> to, start_time |-> start,
     end_time |-> end, costs |-> costs, technologies_unlocked |-> techs]

GameState(levels, res, techs) ==
    [building_levels |-> levels, resources |-> res,
     researched_technologies |-> techs, time_elapsed |-> 0]

\* GameState.can_afford
CanAfford(gs, costs) == \A r \in DOMAIN costs : Get(gs.resources, r, 0) >= costs[r] * Scale

\* GameState.spend_resources
SpendResources(gs, costs) ==
    [gs EXCEPT !.resources =
        [r \in DOMAIN gs.resources |-> gs.resources[r] - Get(costs, r, 0) * Scale]]

Solution(bas, ras, total, final) ==
    [kind |-> "solution", building_actions |-> bas, research_actions |-> ras,
     total_time_seconds |-> total, final_state |-> final]

\* sorted(..., key=start_time) is stable: an action goes behind every action
\* already placed that does not start later
InsertByStart(sorted, a) ==
    LET before == {i \in 1..Len(sorted) : sorted[i].start_time <= a.start_time}
        n == IF before = {} THEN 0 ELSE CHOOSE i \in before : \A k \in before : k <= i
    IN SubSeq(sorted, 1, n) \o <<a>> \o SubSeq(sorted, n + 1, Len(sorted))

RECURSIVE SortedByStart(_)
SortedByStart(actions) ==
    IF actions = <<>> THEN <<>>
    ELSE InsertByStart(SortedByStart(SubSeq(actions, 1, Len(actions) - 1)),
                       actions[Len(actions)])

GetAllActionsChronological_ResearchFirst(sol) ==
    SortedByStart(sol.research_actions \o sol.building_actions)

\* Solution.get_all_actions_chronological
GetAllActionsChronological(sol) ==
    SortedByStart(sol.building_actions \o sol.research_actions)

-----------------------------------------------------------------------------
(* GreedySolver (solver_lnk/solvers/greedy_solver.py)                      *)

\* state.building_levels.get(btype, 1)
LevelOf(levels, bt) == Get(levels, bt, 1)

ProducedResource(bt) ==
    CASE bt = "lumberjack" -> "wood"
      [] bt = "quarry" -> "stone"
      [] bt = "ore_mine" -> "iron"
      [] bt = "farm" -> "food"
      [] OTHER -> "none"

StoredResource(bt) ==
    CASE bt = "wood_store" -> "wood"
      [] bt = "stone_store" -> "stone"
      [] bt = "ore_store" -> "iron"
      [] bt = "farm" -> "food"
      [] OTHER -> "none"

StorageBuilding(r) ==
    CASE r = "wood" -> "wood_store"
      [] r = "stone" -> "stone_store"
      [] r = "iron" -> "ore_store"
      [] r = "food" -> "farm"

CalculateProductionRates(levels) ==
    [r \in ResourceType |->
        LET bt == CHOOSE b \in {"lumberjack", "quarry", "ore_mine", "farm"} :
                      ProducedResource(b) = r
        IN IF bt \in DOMAIN buildings
              /\ HasLevel(buildings[bt], LevelOf(levels, bt))
              /\ buildings[bt].levels[LevelOf(levels, bt)].production_rate # NONE
           THEN buildings[bt].levels[LevelOf(levels, bt)].production_rate
           ELSE 0]

CalculateStorageCapacities(levels) ==
    [r \in ResourceType |->
        LET bt == StorageBuilding(r)
        IN IF bt \in DOMAIN buildings
              /\ HasLevel(buildings[bt], LevelOf(levels, bt))
              /\ buildings[bt].levels[LevelOf(levels, bt)].storage_capacity # NONE
           THEN buildings[bt].levels[LevelOf(levels, bt)].storage_capacity
           ELSE IF r = "food" THEN DefaultFoodCap ELSE DefaultCap]

InitialSimulationState(gs) ==
    [time_minutes |-> 0,
     resources |-> gs.resources,
     building_levels |-> gs.building_levels,
     production_rates |-> CalculateProductionRates(gs.building_levels),
     storage_caps |-> CalculateStorageCapacities(gs.building_levels),
     building_queue_free_at |-> 0,
     research_queue_free_at |-> 0,
     completed_actions |-> <<>>,
     research_actions |-> <<>>,
     researched_technologies |-> {},
     advances |-> <<>>]

\* the steps <<bt, level>> for level = 2..max target, interleaved over group
RECURSIVE Interleaved(_, _, _, _)
Interleaved(group, targets, level, i) ==
    LET top == Max({0} \cup {targets[group[j]] :
                       j \in {k \in 1..Len(group) : group[k] \in DOMAIN targets}})
    IN IF level > top THEN <<>>
       ELSE IF i > Len(group) THEN Interleaved(group, targets, level + 1, 1)
       ELSE (IF group[i] \in DOMAIN targets /\ level <= targets[group[i]]
             THEN <<(<<group[i], level>>)>> ELSE <<>>)
            \o Interleaved(group, targets, level, i + 1)

\* the steps <<bt, 2>> .. <<bt, target>> of each building of group in turn
RECURSIVE Consecutive(_, _, _, _)
Consecutive(group, targets, i, level) ==
    IF i > Len(group) THEN <<>>
    ELSE IF group[i] \notin DOMAIN targets \/ level > targets[group[i]]
         THEN Consecutive(group, targets, i + 1, 2)
    ELSE <<(<<group[i], level>>)>> \o Consecutive(group, targets, i, level + 1)

CreatePrioritizedQueue(targets) ==
    Interleaved(<<"lumberjack", "quarry", "ore_mine">>, targets, 2, 1)
    \o Interleaved(<<"wood_store", "stone_store", "ore_store">>, targets, 2, 1)
    \o Consecutive(<<"farm">>, targets, 1, 2)
    \o Consecutive(<<"keep", "library">>, targets, 1, 2)
    \o Consecutive(<<"arsenal", "tavern", "market", "fortifications">>, targets, 1, 2)

\* the record of one call of _advance_time kept in the history field advances
Advance(s, minutes, after) ==
    [minutes |-> minutes, before |-> s.resources, rates |-> s.production_rates,
     caps |-> s.storage_caps, after |-> after]

\* the quantities are not cut to the storage capacity
AdvanceTime_Unclamped(s, minutes) ==
    LET after == [r \in ResourceType |->
                     s.resources[r] + s.production_rates[r] * minutes]
    IN [s EXCEPT !.time_minutes = @ + minutes,
                 !.resources = after,
                 !.advances = Append(@, Advance(s, minutes, after))]

AdvanceTime(s, minutes) ==
    LET after == [r \in ResourceType |->
                     MinOf(s.resources[r] + s.production_rates[r] * minutes,
                           s.storage_caps[r] * Scale)]
    IN [s EXCEPT !.time_minutes = @ + minutes,
                 !.resources = after,
                 !.advances = Append(@, Advance(s, minutes, after))]

CheckTechnologyPrerequisite(s, building, to_level) ==
    LET tech_name == Get(building.technology_prerequisites, to_level, NoTech)
    IN IF tech_name = NoTech THEN NoTech
       ELSE IF tech_name \in s.researched_technologies THEN NoTech
       ELSE tech_name

\* <<bt, target, index>> of the step to work on, index 0 for None
RECURSIVE FirstUnmet(_, _, _)
FirstUnmet(s, q, idx) ==
    IF idx > Len(q) THEN <<"none", 0, 0>>
    ELSE IF LevelOf(s.building_levels, q[idx][1]) >= q[idx][2]
         THEN FirstUnmet(s, q, idx + 1)
    ELSE <<q[idx][1], q[idx][2], idx>>

\* the step at the front of the work-list is passed over
SelectNextUpgrade_SkipsFront(s, q) ==
    IF Len(q) < 2 THEN <<"none", 0, 0>> ELSE FirstUnmet(s, q, 2)

\* lines 346-386
SelectNextUpgrade(s, q) ==
    IF q = <<>> THEN <<"none", 0, 0>>
    ELSE IF q[1][1] \in {"wood_store", "stone_store", "ore_store", "farm"}
            /\ LevelOf(s.building_levels, q[1][1]) < q[1][2]
         THEN <<q[1][1], q[1][2], 1>>
    ELSE FirstUnmet(s, q, 1)

\* the quotient is cut to whole minutes and no minute is added
CanAffordOrWaitTime_Truncated(s, costs) ==
    LET short == {r \in ResourceType : s.resources[r] < costs[r] * Scale}
        wait(r) == (costs[r] * Scale - s.resources[r]) \div s.production_rates[r]
    IN IF short = {} THEN <<TRUE, 0>>
       ELSE IF \E r \in short : s.production_rates[r] <= 0 THEN <<FALSE, -1>>
       ELSE <<FALSE, Max({wait(r) : r \in short})>>

\* <<can_afford, wait_minutes>>; int(shortfall / rate * 60) + 1 is computed
\* exactly as (shortfall in 1/Scale units) \div rate + 1
CanAffordOrWaitTime(s, costs) ==
    LET short == {r \in ResourceType : s.resources[r] < costs[r] * Scale}
        wait(r) == ((costs[r] * Scale - s.resources[r]) \div s.production_rates[r]) + 1
    IN IF short = {} THEN <<TRUE, 0>>
       ELSE IF \E r \in short : s.production_rates[r] <= 0 THEN <<FALSE, -1>>
       ELSE <<FALSE, Max({wait(r) : r \in short})>>

\* first level in range(current + 1, 31) whose capacity covers cost, 0 if none
FirstLevelWithCapacity(building, current_level, cost) ==
    LET ok == {l \in (current_level + 1)..(SearchLimit - 1) :
                  /\ HasLevel(building, l)
                  /\ building.levels[l].storage_capacity # NONE
                  /\ building.levels[l].storage_capacity >= cost}
    IN IF ok = {} THEN 0 ELSE Min(ok)

\* <<ok, step needed or NoStep>>, scanning the costs in dict order from ResOrder[i]
RECURSIVE CheckStorageFrom(_, _, _)
CheckStorageFrom(s, costs, i) ==
    IF i > Len(ResOrder) THEN <<TRUE, NoStep>>
    ELSE LET r == ResOrder[i]
             bt == StorageBuilding(r)
             exceeded == IF r = "food"
                         THEN s.resources[r] < costs[r] * Scale
                         ELSE costs[r] > s.storage_caps[r]
         IN IF ~exceeded \/ bt \notin DOMAIN buildings
            THEN CheckStorageFrom(s, costs, i + 1)
            ELSE LET level == FirstLevelWithCapacity(
                                  buildings[bt], LevelOf(s.building_levels, bt), costs[r])
                 IN IF level = 0 THEN <<FALSE, NoStep>>
                    ELSE <<FALSE, <<bt, level>>>>

CheckStorageCapacity(s, costs) == CheckStorageFrom(s, costs, 1)

\* state.resources[r] -= cost for every cost
Deduct(s, costs) ==
    [s EXCEPT !.resources = [r \in ResourceType |-> s.resources[r] - costs[r] * Scale]]

Affordable(s, costs) == \A r \in ResourceType : costs[r] * Scale <= s.resources[r]

\* the outcome of one step of solve
Out(s, q, b, over) == [state |-> s, queue |-> q, branch |-> b, overdrawn |-> over]


\* lines 83-86: wait for the construction queue
WaitForBuildingQueue(s) ==
    IF s.time_minutes < s.building_queue_free_at
    THEN AdvanceTime(s, s.building_queue_free_at - s.time_minutes)
    ELSE s

\* the research starts without waiting for the research queue
WaitForResearchQueue_Skipped(s) == s

\* lines 298-300: wait for the research queue
WaitForResearchQueue(s) ==
    IF s.time_minutes < s.research_queue_free_at
    THEN AdvanceTime(s, s.research_queue_free_at - s.time_minutes)
    ELSE s

\* max(1, seconds // 60)
DurationMinutes(seconds) == MaxOf(1, seconds \div 60)

\* the research also occupies the construction queue
StartResearch_BlocksConstruction(s, tech_name) ==
    LET tech == technologies[tech_name]
        library_level == LevelOf(s.building_levels, "library")
        start_time == s.time_minutes
        duration_minutes == DurationMinutes(tech.research_time_seconds)
    IN [Deduct(s, tech.costs) EXCEPT
           !.research_queue_free_at = start_time + duration_minutes,
           !.building_queue_free_at = start_time + duration_minutes,
           !.research_actions = Append(@,
               LibraryResearchAction(library_level, library_level,
                   start_time * 60, (start_time + duration_minutes) * 60,
                   tech.costs, {tech_name})),
           !.researched_technologies = @ \cup {tech_name}]

\* lines 316-344: start the research of tech_name at the current time
StartResearch(s, tech_name) ==
    LET tech == technologies[tech_name]
        library_level == LevelOf(s.building_levels, "library")
        start_time == s.time_minutes
        duration_minutes == DurationMinutes(tech.research_time_seconds)
    IN [Deduct(s, tech.costs) EXCEPT
           !.research_queue_free_at = start_time + duration_minutes,
           !.research_actions = Append(@,
               LibraryResearchAction(library_level, library_level,
                   start_time * 60, (start_time + duration_minutes) * 60,
                   tech.costs, {tech_name})),
           !.researched_technologies = @ \cup {tech_name}]

ScheduleResearch(s0, tech_name, q) ==
    IF tech_name \notin DOMAIN technologies
    THEN Out(s0, q, "tech_missing", FALSE)
    ELSE
    LET tech == technologies[tech_name]
        library_level == LevelOf(s0.building_levels, "library")
    IN IF library_level < tech.required_library_level
       THEN Out(s0, <<(<<"library", tech.required_library_level>>)>> \o q,
                "library_insert", FALSE)
       ELSE
       LET s1 == WaitForResearchQueue(s0)
           storage == CheckStorageCapacity(s1, tech.costs)
           afford == CanAffordOrWaitTime(s1, tech.costs)
       IN IF ~storage[1]
          THEN IF storage[2] # NoStep
               THEN Out(s1, <<storage[2]>> \o q, "research_storage_insert", FALSE)
               ELSE Out(s1, q, "research_storage_none", FALSE)
          ELSE IF ~afford[1] /\ afford[2] < 0
          THEN Out(s1, q, "research_cannot_produce", FALSE)
          ELSE
          LET s2 == IF afford[1] THEN s1 ELSE AdvanceTime(s1, afford[2])
          IN Out(StartResearch(s2, tech_name), q, "research",
                 ~Affordable(s2, tech.costs))

\* lines 162-184: a completed producer level sets the production rate
UpdateProduction(s, btype, to_level, target_level) ==
    LET rate == buildings[btype].levels[to_level].production_rate
    IN IF to_level <= target_level
          /\ btype \in {"lumberjack", "quarry", "ore_mine", "farm"}
          /\ rate # NONE /\ rate # 0
       THEN [s EXCEPT !.production_rates[ProducedResource(btype)] = rate]
       ELSE s

\* the farm raises the cap and leaves the food quantity as it is
UpdateStorage_CeilingOnly(s, btype, to_level) ==
    LET cap == buildings[btype].levels[to_level].storage_capacity
    IN IF btype \in {"wood_store", "stone_store", "ore_store", "farm"}
          /\ cap # NONE /\ cap # 0
       THEN [s EXCEPT !.storage_caps[StoredResource(btype)] = cap]
       ELSE s

\* lines 186-209: a completed storage level sets the cap; a farm refills food
UpdateStorage(s, btype, to_level) ==
    LET cap == buildings[btype].levels[to_level].storage_capacity
        res == StoredResource(btype)
    IN IF btype \in {"wood_store", "stone_store", "ore_store", "farm"}
          /\ cap # NONE /\ cap # 0
       THEN [s EXCEPT !.storage_caps[res] = cap,
                      !.resources[res] = IF res = "food" THEN cap * Scale ELSE @]
       ELSE s

\* the new level, rate and cap are in force from the start of the upgrade
StartUpgrade_EffectAtStart(s, q, btype, target_level, idx) ==
    LET from_level == LevelOf(s.building_levels, btype)
        to_level == from_level + 1
        level_data == buildings[btype].levels[to_level]
        start_time == s.time_minutes
        duration_minutes == DurationMinutes(level_data.build_time_seconds)
        busy == [Deduct(s, level_data.costs) EXCEPT
                    !.building_queue_free_at = start_time + duration_minutes,
                    !.building_levels = Put(@, btype, to_level)]
        updated == AdvanceTime(
                       UpdateStorage(
                           UpdateProduction(busy, btype, to_level, target_level),
                           btype, to_level),
                       duration_minutes)
        recorded == [updated EXCEPT !.completed_actions = Append(@,
                        BuildingUpgradeAction(btype, from_level, to_level,
                            start_time * 60, updated.time_minutes * 60,
                            level_data.costs))]
    IN Out(recorded,
           IF LevelOf(recorded.building_levels, btype) >= target_level
           THEN Pop(q, idx) ELSE q,
           "upgrade", ~Affordable(s, level_data.costs))

\* lines 145-225: start the upgrade at the current time and run it to completion
StartUpgrade(s, q, btype, target_level, idx) ==
    LET from_level == LevelOf(s.building_levels, btype)
        to_level == from_level + 1
        level_data == buildings[btype].levels[to_level]
        start_time == s.time_minutes
        duration_minutes == DurationMinutes(level_data.build_time_seconds)
        busy == [Deduct(s, level_data.costs) EXCEPT
                    !.building_queue_free_at = start_time + duration_minutes]
        done == [AdvanceTime(busy, duration_minutes) EXCEPT
                    !.building_levels = Put(@, btype, to_level)]
        updated == UpdateStorage(
                       UpdateProduction(done, btype, to_level, target_level),
                       btype, to_level)
        recorded == [updated EXCEPT !.completed_actions = Append(@,
                        BuildingUpgradeAction(btype, from_level, to_level,
                            start_time * 60, updated.time_minutes * 60,
                            level_data.costs))]
    IN Out(recorded,
           IF LevelOf(recorded.building_levels, btype) >= target_level
           THEN Pop(q, idx) ELSE q,
           "upgrade", ~Affordable(s, level_data.costs))

\* lines 82-225: one iteration of the while loop of solve
LoopBody(s0, q) ==
    LET s == WaitForBuildingQueue(s0)
        next_upgrade == SelectNextUpgrade(s, q)
        btype == next_upgrade[1]
        target_level == next_upgrade[2]
        queue_idx == next_upgrade[3]
        current_level == LevelOf(s.building_levels, btype)
        to_level == current_level + 1
    IN IF queue_idx = 0 THEN Out(s, q, "break", FALSE)
       ELSE IF current_level >= target_level
       THEN Out(s, Pop(q, queue_idx), "at_target", FALSE)
       ELSE IF btype \notin DOMAIN buildings
       THEN Out(s, Pop(q, queue_idx), "no_building", FALSE)
       ELSE IF ~HasLevel(buildings[btype], to_level)
       THEN Out(s, Pop(q, queue_idx), "no_level", FALSE)
       ELSE
       LET costs == buildings[btype].levels[to_level].costs
           tech_needed == CheckTechnologyPrerequisite(s, buildings[btype], to_level)
           storage == CheckStorageCapacity(s, costs)
           afford == CanAffordOrWaitTime(s, costs)
       IN IF tech_needed # NoTech THEN ScheduleResearch(s, tech_needed, q)
          ELSE IF ~storage[1]
          THEN IF storage[2] # NoStep
               THEN Out(s, <<storage[2]>> \o q, "storage_insert", FALSE)
               ELSE Out(s, q, "storage_none", FALSE)
          ELSE IF ~afford[1] /\ afford[2] < 0
          THEN Out(s, Pop(q, queue_idx), "cannot_produce", FALSE)
          ELSE StartUpgrade(IF afford[1] THEN s ELSE AdvanceTime(s, afford[2]),
                            q, btype, target_level, queue_idx)


-----------------------------------------------------------------------------
(* CPSATDualQueueSolver (solver_lnk/solvers/cpsat_dual_queue_solver.py)    *)
(* The CP-SAT backend is modelled by its contract: with status OPTIMAL or  *)
(* FEASIBLE it delivers some assignment that satisfies every constraint    *)
(* added to the model; otherwise solve returns None.                       *)

HorizonSlack == 0

\* the steps start at level 2 whatever the current level is
TargetedSteps_FromLevelTwo ==
    UNION {{<<bt, l>> : l \in 2..target_levels[bt]} : bt \in DOMAIN target_levels}

\* the steps <<bt, level>>, level in range(current + 1, target + 1), of the targets
TargetedSteps ==
    UNION {{<<bt, l>> : l \in
               (LevelOf(initial_state.building_levels, bt) + 1)..target_levels[bt]} :
           bt \in DOMAIN target_levels}

DetermineRequiredTechnologies ==
    {buildings[x[1]].technology_prerequisites[x[2]] :
        x \in {y \in TargetedSteps :
                  /\ y[1] \in DOMAIN buildings
                  /\ y[2] \in DOMAIN buildings[y[1]].technology_prerequisites}}

CalculateRequiredLibraryLevel ==
    Max({1} \cup {technologies[t].required_library_level :
                     t \in DetermineRequiredTechnologies \cap DOMAIN technologies})

\* task keys; the three dicts of the source are told apart by type
BuildingTask(bt, level) ==
    [type |-> "building", building_type |-> bt, level |-> level, tech_name |-> NoTech]
LibraryTask(level) ==
    [type |-> "library_upgrade", building_type |-> "library", level |-> level,
     tech_name |-> NoTech]
TechTask(tech_name) ==
    [type |-> "tech_research", building_type |-> "none", level |-> 0,
     tech_name |-> tech_name]

CreateBuildingTasks ==
    {BuildingTask(x[1], x[2]) :
        x \in {y \in TargetedSteps :
                  y[1] \in DOMAIN buildings /\ HasLevel(buildings[y[1]], y[2])}}

\* Library tasks up to the last level of the catalog, needed or not
CreateLibraryTasks_ToMaxLevel ==
    IF "library" \in DOMAIN buildings
    THEN {LibraryTask(l) :
             l \in {k \in (LevelOf(initial_state.building_levels, "library") + 1)
                          ..buildings["library"].max_level :
                       HasLevel(buildings["library"], k)}}
    ELSE {}

CreateLibraryTasks ==
    IF "library" \in DOMAIN buildings
    THEN {LibraryTask(l) :
             l \in {k \in (LevelOf(initial_state.building_levels, "library") + 1)
                          ..CalculateRequiredLibraryLevel :
                       HasLevel(buildings["library"], k)}}
    ELSE {}

CreateTechTasks ==
    {TechTask(t) : t \in DetermineRequiredTechnologies \cap DOMAIN technologies}

AllTasks == CreateBuildingTasks \cup CreateLibraryTasks \cup CreateTechTasks

TimeScaleSeconds == time_scale_minutes * 60

TaskSeconds(task) ==
    IF task.type = "tech_research"
    THEN technologies[task.tech_name].research_time_seconds
    ELSE buildings[task.building_type].levels[task.level].build_time_seconds

\* max(1, seconds // time_scale_seconds)
TaskDuration(task) == MaxOf(1, TaskSeconds(task) \div TimeScaleSeconds)

TaskCosts(task) ==
    IF task.type = "tech_research"
    THEN [technologies[task.tech_name].costs EXCEPT !["food"] = 0]
    ELSE buildings[task.building_type].levels[task.level].costs

RECURSIVE SumDurations(_)
SumDurations(tasks) ==
    IF tasks = {} THEN 0
    ELSE LET t == CHOOSE x \in tasks : TRUE
         IN TaskDuration(t) + SumDurations(tasks \ {t})

\* upper bound of every start and end variable; the source's estimate
\* (3 * total seconds) // time_scale_seconds + 1000 is cut down to the total
\* duration plus HorizonSlack time units
EstimateMaxHorizon == SumDurations(AllTasks) + HorizonSlack

\* precedence constraints <<a, b>>: a.end <= b.start
SequencingConstraints ==
    {<<BuildingTask(x[1], x[2]), BuildingTask(x[1], x[2] + 1)>> :
        x \in {y \in TargetedSteps :
                  /\ y[2] < target_levels[y[1]]
                  /\ BuildingTask(y[1], y[2]) \in CreateBuildingTasks
                  /\ BuildingTask(y[1], y[2] + 1) \in CreateBuildingTasks}}
    \cup
    {<<LibraryTask(l), LibraryTask(l + 1)>> :
        l \in {k \in 2..CalculateRequiredLibraryLevel :
                  LibraryTask(k) \in CreateLibraryTasks
                  /\ LibraryTask(k + 1) \in CreateLibraryTasks}}

TechDependencies ==
    {<<LibraryTask(technologies[t.tech_name].required_library_level), t>> :
        t \in {u \in CreateTechTasks :
                  LibraryTask(technologies[u.tech_name].required_library_level)
                      \in CreateLibraryTasks}}
    \cup
    {<<TechTask(buildings[b.building_type].technology_prerequisites[b.level]), b>> :
        b \in {c \in CreateBuildingTasks :
                  /\ c.level \in DOMAIN buildings[c.building_type].technology_prerequisites
                  /\ TechTask(buildings[c.building_type].technology_prerequisites[c.level])
                         \in CreateTechTasks}}

\* the early levels 2..5 of a resource's producer end before every task
\* whose cost of that resource exceeds the initial amount
ResourceConstraints ==
    {<<BuildingTask(x[2], x[3]), x[1]>> :
        x \in {y \in AllTasks \X {"lumberjack", "quarry", "ore_mine", "farm"} \X (2..5) :
                  /\ BuildingTask(y[2], y[3]) \in CreateBuildingTasks
                  /\ TaskCosts(y[1])[ProducedResource(y[2])] > 0
                  /\ TaskCosts(y[1])[ProducedResource(y[2])] * Scale
                         > initial_state.resources[ProducedResource(y[2])]}}

\* storage level max(prod_level // 2, 10) ends before producer levels 10..30
StorageConstraints ==
    {<<BuildingTask(StorageBuilding(ProducedResource(x[1])), MaxOf(x[2] \div 2, 10)),
       BuildingTask(x[1], x[2])>> :
        x \in {y \in {"lumberjack", "quarry", "ore_mine"} \X (10..30) :
                  /\ BuildingTask(y[1], y[2]) \in CreateBuildingTasks
                  /\ BuildingTask(StorageBuilding(ProducedResource(y[1])),
                                  MaxOf(y[2] \div 2, 10)) \in CreateBuildingTasks}}

Precedences ==
    SequencingConstraints \cup TechDependencies \cup ResourceConstraints
        \cup StorageConstraints

\* the queue whose AddNoOverlap holds the task's interval
QueueOf(task) == IF task.type = "building" THEN "building" ELSE "research"

\* the constraints between two tasks: a.end <= b.start for a precedence,
\* disjoint intervals [start, start + duration) within one queue
Compatible(a, sa, b, sb, prec) ==
    /\ <<a, b>> \in prec => sa + TaskDuration(a) <= sb
    /\ <<b, a>> \in prec => sb + TaskDuration(b) <= sa
    /\ (a # b /\ QueueOf(a) = QueueOf(b)) =>
           \/ sa + TaskDuration(a) <= sb
           \/ sb + TaskDuration(b) <= sa

\* start satisfies every constraint of the model built by solve
Satisfies(start, tasks, prec, horizon) ==
    /\ \A t \in tasks : start[t] + TaskDuration(t) <= horizon
    /\ \A a, b \in tasks : Compatible(a, start[a], b, start[b], prec)

\* the assignments over tasks that extend one of partial and satisfy the
\* constraints, built one task at a time
RECURSIVE Assignments(_, _, _, _)
Assignments(partial, todo, prec, horizon) ==
    IF todo = {} THEN partial
    ELSE LET t == CHOOSE x \in todo : TRUE
             extended ==
                 {Put(y[1], t, y[2]) :
                     y \in {z \in partial \X (0..(horizon - TaskDuration(t))) :
                               /\ <<t, t>> \notin prec
                               /\ \A u \in DOMAIN z[1] :
                                      Compatible(u, z[1][u], t, z[2], prec)}}
         IN Assignments(extended, todo \ {t}, prec, horizon)

\* the assignments CP-SAT can deliver with status OPTIMAL or FEASIBLE
FeasibleAssignments ==
    LET tasks == AllTasks
        prec == Precedences
        horizon == EstimateMaxHorizon
    IN {start \in Assignments({<<>>}, tasks, prec, horizon) :
           Satisfies(start, tasks, prec, horizon)}

\* list.sort(key=start_time) of the actions made from tasks
RECURSIVE SortByStart(_)
SortByStart(actions) ==
    IF actions = {} THEN <<>>
    ELSE LET first == CHOOSE a \in actions :
                          \A b \in actions : a.start_time <= b.start_time
         IN <<first>> \o SortByStart(actions \ {first})

ExtractSolution(start) ==
    LET from(t) == start[t] * TimeScaleSeconds
        to(t) == (start[t] + TaskDuration(t)) * TimeScaleSeconds
        building_actions == SortByStart(
            {BuildingUpgradeAction(t.building_type, t.level - 1, t.level,
                                   from(t), to(t), TaskCosts(t)) :
                t \in CreateBuildingTasks})
        research_actions == SortByStart(
            {LibraryResearchAction(t.level - 1, t.level, from(t), to(t),
                                   TaskCosts(t), {}) : t \in CreateLibraryTasks}
            \cup
            {LibraryResearchAction(0, 0, from(t), to(t), TaskCosts(t),
                                   {t.tech_name}) : t \in CreateTechTasks})
        last_end(actions) ==
            IF actions = <<>> THEN 0 ELSE actions[Len(actions)].end_time
    IN Solution(building_actions, research_actions,
                MaxOf(last_end(building_actions), last_end(research_actions)),
                [GameState([bt \in BuildingType |->
                               MaxOf(LevelOf(initial_state.building_levels, bt),
                                     Get(target_levels, bt, 1))],
                           [r \in ResourceType |-> 0], {})
                    EXCEPT !.time_elapsed =
                        MaxOf(last_end(building_actions),
                              last_end(research_actions))])

\* GameState.get_production_rates: the rates per hour of the producers in
\* gs.building_levels that are above level 0 and have a non-zero rate
GetProductionRates(gs) ==
    [r \in ResourceType |->
        LET bt == CHOOSE b \in {"lumberjack", "quarry", "ore_mine", "farm"} :
                      ProducedResource(b) = r
        IN IF bt \in DOMAIN gs.building_levels
              /\ gs.building_levels[bt] # 0
              /\ bt \in DOMAIN buildings
              /\ HasLevel(buildings[bt], gs.building_levels[bt])
              /\ buildings[bt].levels[gs.building_levels[bt]].production_rate
                     \notin {NONE, 0}
           THEN buildings[bt].levels[gs.building_levels[bt]].production_rate
           ELSE 0]

\* GameState.update_resources: every quantity grows by rate * hours
UpdateResources(gs, time_seconds, production_rates) ==
    [gs EXCEPT !.resources =
                   [r \in DOMAIN gs.resources |->
                       gs.resources[r]
                           + (production_rates[r] * time_seconds * Scale) \div 3600],
               !.time_elapsed = @ + time_seconds]

-----------------------------------------------------------------------------
(* Inputs: catalogs, initial states and targets built from a parameter     *)
(* vector.  The default vector is the scenario of one lumberjack at level  *)
(* 1 (10 wood/hour) whose level 2 costs 50 wood and takes 60 s; every      *)
(* input differs from it in at most MaxDeviations parameters.              *)

MaxDeviations == 3
MaxQueue == 4
MaxCalls == 2

Costs(wood, food) == [r \in ResourceType |->
    IF r = "wood" THEN wood ELSE IF r = "food" THEN food ELSE 0]

BuildingLevel(costs, seconds, rate, cap) ==
    [costs |-> costs, build_time_seconds |-> seconds,
     production_rate |-> rate, storage_capacity |-> cap]

Building(max_level, levels, prereqs, tech_prereqs) ==
    [max_level |-> max_level, levels |-> levels, prerequisites |-> prereqs,
     technology_prerequisites |-> tech_prereqs]

Technology(lib, costs, seconds) ==
    [required_library_level |-> lib, costs |-> costs,
     research_time_seconds |-> seconds]

\* restriction of a function to the keys in S
Restrict(f, S) == [x \in DOMAIN f \cap S |-> f[x]]

TargetChoices ==
    <<[b \in {"lumberjack"} |-> 2],
      [b \in {"lumberjack"} |-> 3],
      [b \in {"lumberjack"} |-> 1],
      [b \in {"lumberjack", "farm"} |-> IF b = "farm" THEN 3 ELSE 2],
      [b \in {"lumberjack", "castle"} |-> 2],
      [b \in {"lumberjack", "wood_store"} |-> 2],
      [b \in {"lumberjack", "library"} |-> 2],
      [b \in {"quarry"} |-> 2],
      [b \in {"keep"} |-> 1],
      [b \in {"farm"} |-> 3],
      [b \in {"farm", "library"} |-> IF b = "farm" THEN 3 ELSE 2]>>

DefaultParams ==
    [rate |-> 10, cost |-> 50, food_cost |-> 0, tech |-> NoTech,
     tech_library |-> 1, tech_cost |-> 0, tech_seconds |-> 180,
     store_cost |-> 10, absent |-> "none", gap |-> FALSE,
     wood |-> 0, food |-> 40, targets |-> 1, scale |-> 1,
     farm_rate |-> NONE, researched |-> NoTech, level |-> 1, deep |-> FALSE,
     capped |-> FALSE]

\* the values each parameter ranges over
ParamValues ==
    [rate |-> {10, 0}, cost |-> {50, 5000, 9000, 1000000}, food_cost |-> {0, 45, 200},
     tech |-> {NoTech, "T1", "T0"},
     tech_library |-> {1, 2}, tech_cost |-> {0, 30, 500, 9000},
     tech_seconds |-> {180, 60},
     store_cost |-> {10, 200}, absent |-> {"none", "wood_store", "farm", "library"},
     gap |-> BOOLEAN, wood |-> {0, 120}, food |-> {40, 100},
     targets |-> 1..Len(TargetChoices), scale |-> {1, 10},
     farm_rate |-> {NONE, 5}, researched |-> {NoTech, "T1"}, level |-> {1, 2},
     deep |-> BOOLEAN, capped |-> BOOLEAN]

ParamSpace ==
    {p \in [DOMAIN ParamValues -> UNION {ParamValues[k] : k \in DOMAIN ParamValues}] :
        \A k \in DOMAIN ParamValues : p[k] \in ParamValues[k]}

Deviations(p) ==
    Cardinality({k \in DOMAIN DefaultParams : p[k] # DefaultParams[k]})

\* the vectors of ParamSpace that agree with p outside keys and differ from
\* it in at most n parameters of keys, listed once each
RECURSIVE Deviated(_, _, _)
RECURSIVE DeviatedTo(_, _, _, _, _)
Deviated(p, keys, n) ==
    IF keys = {} \/ n = 0 THEN <<p>>
    ELSE LET k == CHOOSE x \in keys : TRUE
         IN Deviated(p, keys \ {k}, n)
            \o DeviatedTo(p, k, ParamValues[k] \ {p[k]}, keys \ {k}, n - 1)

\* those among them that give parameter k one of values
DeviatedTo(p, k, values, keys, n) ==
    IF values = {} THEN <<>>
    ELSE LET v == CHOOSE x \in values : TRUE
         IN Deviated([p EXCEPT ![k] = v], keys, n)
            \o DeviatedTo(p, k, values \ {v}, keys, n)

Params ==
    LET all == Deviated(DefaultParams, DOMAIN ParamValues, MaxDeviations)
    IN {all[i] : i \in 1..Len(all)}

\* a storage level beyond the levels _check_storage_capacity looks at
DeepLevel == 31

CatalogOf(p) ==
    LET all ==
        [b \in {"lumberjack", "wood_store", "farm", "library", "keep"} |->
            CASE b = "lumberjack" ->
                   Building(IF p.capped THEN 2 ELSE 3,
                       Restrict(<<BuildingLevel(Costs(0, 0), 60, p.rate, NONE),
                                  BuildingLevel(Costs(p.cost, p.food_cost), 60, 20, NONE),
                                  BuildingLevel(Costs(20, 0), 90, 30, NONE)>>,
                                IF p.gap THEN {1, 3} ELSE {1, 2, 3}),
                       [l \in {3} |-> [b2 \in {"wood_store"} |-> 1]],
                       IF p.tech = NoTech THEN <<>> ELSE [l \in {2} |-> p.tech])
              [] b = "wood_store" ->
                   Building(IF p.deep THEN DeepLevel ELSE 3,
                       [l \in 1..(IF p.deep THEN DeepLevel ELSE 3) |->
                           CASE l = 1 -> BuildingLevel(Costs(0, 0), 60, NONE, 100)
                             [] l = 2 -> BuildingLevel(Costs(p.store_cost, 0),
                                                       60, NONE, 1000)
                             [] l = DeepLevel ->
                                    BuildingLevel(Costs(10, 0), 60, NONE, 20000)
                             [] OTHER -> BuildingLevel(Costs(10, 0), 60, NONE, 6000)],
                       <<>>, <<>>)
              [] b = "farm" ->
                   Building(3,
                       <<BuildingLevel(Costs(0, 0), 60, p.farm_rate, 40),
                         BuildingLevel(Costs(10, 0), 60, p.farm_rate, 60),
                         BuildingLevel(Costs(10, 0), 120, p.farm_rate, 100)>>,
                       <<>>, [l \in {3} |-> "T2"])
              [] b = "library" ->
                   Building(2,
                       <<BuildingLevel(Costs(0, 0), 60, NONE, NONE),
                         BuildingLevel(Costs(10, 0), 120, NONE, NONE)>>,
                       [l \in {2} |-> [b2 \in {"keep"} |-> 1]], <<>>)
              [] b = "keep" ->
                   Building(2,
                       <<BuildingLevel(Costs(0, 0), 60, NONE, NONE),
                         BuildingLevel(Costs(10, 0), 60, NONE, NONE)>>,
                       <<>>, <<>>)]
    IN Restrict(all, DOMAIN all \ {p.absent})

TechnologiesOf(p) ==
    [t \in {"T1", "T2"} |->
        IF t = "T1"
        THEN Technology(p.tech_library, Costs(p.tech_cost, 0), p.tech_seconds)
        ELSE Technology(p.tech_library, Costs(0, 0), 120)]

InitialStateOf(p) ==
    GameState([b \in {"lumberjack", "wood_store", "farm", "library", "keep"} |->
                  IF b = "keep" THEN 0 ELSE IF b = "lumberjack" THEN p.level ELSE 1],
              [r \in ResourceType |->
                  IF r = "wood" THEN p.wood * Scale
                  ELSE IF r = "food" THEN p.food * Scale ELSE 0],
              IF p.researched = NoTech THEN {} ELSE {p.researched})

\* the parameters InitialStateOf reads; the methods of the data model see
\* nothing else of the input, so they are called under the default catalog
StateParams == {"wood", "food", "researched", "level"}

\* the parameters that vary together with the targets of TargetChoices[11]
\* under CPSATDualQueueSolver, whose five tasks have many assignments
WideTargetParams == {"targets", "tech_library", "researched"}

\* the costs handed to the methods of GameState
CostChoices == {Costs(50, 0), Costs(0, 45)}

\* the durations, in seconds, handed to GameState.update_resources
DurationChoices == {60, 3600}

-----------------------------------------------------------------------------

Init ==
    \E p \in Params :
        /\ buildings = CatalogOf(p)
        /\ technologies = TechnologiesOf(p)
        /\ initial_state = InitialStateOf(p)
        /\ target_levels = TargetChoices[p.targets]
        /\ time_scale_minutes = p.scale
        /\ solver \in {"greedy"}
                \cup (IF p.targets = Len(TargetChoices)
                         => \A k \in DOMAIN ParamValues \ WideTargetParams :
                                p[k] = DefaultParams[k]
                      THEN {"cpsat"} ELSE {})
                \cup (IF \A k \in DOMAIN ParamValues \ StateParams :
                             p[k] = DefaultParams[k]
                      THEN {"models"} ELSE {})
        /\ state = InitialSimulationState(InitialStateOf(p))
        /\ upgrade_queue = CreatePrioritizedQueue(TargetChoices[p.targets])
        /\ pc = "loop"
        /\ game = InitialStateOf(p)
        /\ calls = 0
        /\ solution = NoSolution
        /\ branch = "init"
        /\ stalled = FALSE
        /\ overdrawn = FALSE
        /\ insertions = {}
        /\ chronological = <<>>

\* the branches of solve that put a prerequisite step in front of the work-list
InsertBranches == {"storage_insert", "research_storage_insert", "library_insert"}

\* one iteration of "while upgrade_queue" (lines 81-225)
LoopIteration ==
    /\ solver = "greedy"
    /\ pc = "loop"
    /\ upgrade_queue # <<>>
    /\ Len(upgrade_queue) <= MaxQueue
    /\ LET out == LoopBody(state, upgrade_queue)
           waited == WaitForBuildingQueue(state)
           blocked == SelectNextUpgrade(waited, upgrade_queue)
       IN /\ state' = out.state
          /\ insertions' =
                 IF out.branch \in InsertBranches
                 THEN insertions \cup
                          {[step |-> out.queue[1],
                            trigger |-> <<blocked[1],
                                          LevelOf(waited.building_levels, blocked[1]) + 1>>,
                            actions_before |-> Len(waited.completed_actions)]}
                 ELSE insertions
          /\ upgrade_queue' = out.queue
          /\ branch' = out.branch
          /\ overdrawn' = (overdrawn \/ out.overdrawn)
          /\ stalled' = (stalled \/ (out.branch # "break" /\ out.state = state
                                       /\ out.queue = upgrade_queue))
          /\ pc' = IF out.branch = "break" THEN "break" ELSE "loop"
    /\ UNCHANGED <<inputs, solution, models>>

\* the return statement after the loop (lines 227-236)
GreedyReturn ==
    /\ solver = "greedy"
    /\ \/ pc = "break"
       \/ pc = "loop" /\ upgrade_queue = <<>>
    /\ solution' = Solution(state.completed_actions, state.research_actions,
                            state.time_minutes * 60,
                            GameState(state.building_levels, state.resources,
                                      state.researched_technologies))
    /\ pc' = "returned"
    /\ branch' = "return"
    /\ UNCHANGED <<inputs, state, upgrade_queue, stalled, overdrawn, insertions,
                   models>>

\* CPSATDualQueueSolver.solve with status OPTIMAL or FEASIBLE (lines 139-144)
CPSolve ==
    /\ solver = "cpsat"
    /\ pc = "loop"
    /\ \E start \in FeasibleAssignments : solution' = ExtractSolution(start)
    /\ pc' = "returned"
    /\ branch' = "extract"
    /\ UNCHANGED <<inputs, state, upgrade_queue, stalled, overdrawn, insertions,
                   models>>

\* CPSATDualQueueSolver.solve with any other status, among them the
\* expiry of time_limit_seconds (line 146)
CPNoSolution ==
    /\ solver = "cpsat"
    /\ pc = "loop"
    /\ solution' = NoSolution
    /\ pc' = "returned"
    /\ branch' = "none"
    /\ UNCHANGED <<inputs, state, upgrade_queue, stalled, overdrawn, insertions,
                   models>>

\* a call of GameState.spend_resources; the method has no precondition
SpendResourcesCall ==
    /\ solver = "models"
    /\ calls < MaxCalls
    /\ \E costs \in CostChoices : game' = SpendResources(game, costs)
    /\ calls' = calls + 1
    /\ UNCHANGED <<inputs, state, upgrade_queue, pc, solution, branch, stalled,
                   overdrawn, insertions, chronological>>

\* a call of GameState.update_resources with the rates of get_production_rates
UpdateResourcesCall ==
    /\ solver = "models"
    /\ calls < MaxCalls
    /\ \E time_seconds \in DurationChoices :
           game' = UpdateResources(game, time_seconds, GetProductionRates(game))
    /\ calls' = calls + 1
    /\ UNCHANGED <<inputs, state, upgrade_queue, pc, solution, branch, stalled,
                   overdrawn, insertions, chronological>>

\* a call of Solution.get_all_actions_chronological on the returned Solution,
\* as display_solution makes it
GetAllActionsChronologicalCall ==
    /\ pc = "returned"
    /\ solution # NoSolution
    /\ chronological' = GetAllActionsChronological(solution)
    /\ UNCHANGED <<inputs, state, upgrade_queue, pc, solution, branch, stalled,
                   overdrawn, insertions, game, calls>>

Next ==
    \/ LoopIteration
    \/ GreedyReturn
    \/ CPSolve
    \/ CPNoSolution
    \/ SpendResourcesCall
    \/ UpdateResourcesCall
    \/ GetAllActionsChronologicalCall

Spec == Init /\ [][Next]_vars

-----------------------------------------------------------------------------
(* Properties                                                              *)

Range(seq) == {seq[i] : i \in 1..Len(seq)}

Returned == pc = "returned" /\ solution # NoSolution
GreedyReturned == solver = "greedy" /\ Returned
CPReturned == solver = "cpsat" /\ Returned

\* the technology the catalog requires for the level a build action reaches
RequiredTechnology(a) ==
    Get(buildings[a.building_type].technology_prerequisites, a.to_level, NoTech)

\* C1: in every Solution of GreedySolver.solve, each building action whose
\* (building, to_level) has a technology prerequisite is preceded by a
\* research action unlocking that technology with end_time <= its start_time.
C1_GreedyTechnologyGating ==
    GreedyReturned =>
        \A a \in Range(solution.building_actions) :
            RequiredTechnology(a) # NoTech =>
                \E r \in Range(solution.research_actions) :
                    /\ RequiredTechnology(a) \in r.technologies_unlocked
                    /\ r.end_time <= a.start_time

\* C2: GreedySolver.solve terminates: no iteration of the main loop leaves
\* both the simulation state and the work-list unchanged.
C2_EveryIterationProgresses == ~stalled

\* C3: whenever GreedySolver.solve returns a Solution, every entity of
\* target_levels has a final level >= its target.
C3_GreedyTargetsMet ==
    GreedyReturned =>
        \A bt \in DOMAIN target_levels :
            LevelOf(solution.final_state.building_levels, bt) >= target_levels[bt]

\* C4: when a cost of the next step exceeds what every level of the matching
\* storage entity (the farm for food) can hold, GreedySolver.solve reports
\* infeasibility: it returns, and not a Solution.
C4_StorageInfeasibilityReported ==
    branch \in {"storage_none", "research_storage_none"} =>
        pc = "returned" /\ solution = NoSolution

\* intervals [start_time, end_time) of the actions of a list are pairwise disjoint
Disjoint(actions) ==
    \A i, j \in 1..Len(actions) :
        i # j => \/ actions[i].end_time <= actions[j].start_time
                 \/ actions[j].end_time <= actions[i].start_time

\* C5: in every Solution of GreedySolver.solve no two building actions
\* overlap in time and no two research actions overlap in time.
C5_GreedyQueuesDisjoint ==
    GreedyReturned =>
        Disjoint(solution.building_actions) /\ Disjoint(solution.research_actions)

C5_Witness ==
    /\ GreedyReturned
    /\ Len(solution.building_actions) >= 2
    /\ Len(solution.research_actions) >= 2
    /\ \E i \in 1..Len(solution.research_actions) :
           solution.research_actions[i].start_time > 0

\* C6: in the greedy simulation every deduction takes at most the current
\* quantity of each resource, so no resource quantity is ever negative.
C6_GreedyNeverOverdrawn ==
    solver = "greedy" =>
        ~overdrawn /\ \A r \in ResourceType : state.resources[r] >= 0

\* the start and end events of the actions of a Solution
EventsOf(sol) ==
    UNION {{[kind |-> "start", time |-> a.start_time, queue |-> "building", action |-> a],
            [kind |-> "end", time |-> a.end_time, queue |-> "building", action |-> a]} :
           a \in Range(sol.building_actions)}
    \cup
    UNION {{[kind |-> "start", time |-> a.start_time, queue |-> "research", action |-> a],
            [kind |-> "end", time |-> a.end_time, queue |-> "research", action |-> a]} :
           a \in Range(sol.research_actions)}

\* the effect of a completed action on the simulated state
Completed(s, e) ==
    LET a == e.action
        bt == IF e.queue = "building" THEN a.building_type ELSE "library"
        raised == [s EXCEPT !.building_levels = Put(@, bt, a.to_level)]
    IN IF e.queue = "research" /\ a.technologies_unlocked # {}
       THEN [s EXCEPT !.researched_technologies = @ \cup a.technologies_unlocked]
       ELSE IF bt \in DOMAIN buildings /\ HasLevel(buildings[bt], a.to_level)
       THEN UpdateStorage(UpdateProduction(raised, bt, a.to_level, a.to_level),
                          bt, a.to_level)
       ELSE raised

\* replay of the events in time order (ends before starts at one instant)
\* with accrual and clamping between events: every start is affordable
RECURSIVE ReplayAffordable(_, _)
ReplayAffordable(s, events) ==
    IF events = {} THEN TRUE
    ELSE LET e == CHOOSE x \in events : \A y \in events :
                      \/ x.time < y.time
                      \/ x.time = y.time /\ (x.kind = "end" \/ y.kind = "start")
             minutes == e.time \div 60 - s.time_minutes
             now == IF minutes > 0 THEN AdvanceTime(s, minutes) ELSE s
         IN IF e.kind = "end"
            THEN ReplayAffordable(Completed(now, e), events \ {e})
            ELSE /\ Affordable(now, e.action.costs)
                 /\ ReplayAffordable(Deduct(now, e.action.costs), events \ {e})

\* C7: every Solution decoded by CPSATDualQueueSolver.solve is affordable
\* when its actions are replayed in start-time order from the initial
\* resources with production accrual and storage clamping.
C7_CPSolutionAffordable ==
    CPReturned =>
        ReplayAffordable(InitialSimulationState(initial_state), EventsOf(solution))

\* one lumberjack at level 1 producing 10 wood/hour, level 2 for 50 wood in
\* 60 s without technology, no wood at the start, target level 2
ProducerScenario ==
    /\ target_levels = [b \in {"lumberjack"} |-> 2]
    /\ "lumberjack" \in DOMAIN buildings
    /\ initial_state.building_levels["lumberjack"] = 1
    /\ initial_state.resources["wood"] = 0
    /\ HasLevel(buildings["lumberjack"], 2)
    /\ buildings["lumberjack"].levels[1].production_rate = 10
    /\ buildings["lumberjack"].levels[2].costs = Costs(50, 0)
    /\ buildings["lumberjack"].levels[2].build_time_seconds = 60
    /\ 2 \notin DOMAIN buildings["lumberjack"].technology_prerequisites

\* C8: in the producer scenario GreedySolver.solve returns exactly one
\* building action 1->2 from 18000 s to 18060 s and total time 18060 s.
C8_ProducerScenarioTimes ==
    (GreedyReturned /\ ProducerScenario) =>
        /\ solution.building_actions =
               <<BuildingUpgradeAction("lumberjack", 1, 2, 18000, 18060, Costs(50, 0))>>
        /\ solution.total_time_seconds = 18060

\* C9: the total time of every Solution of either scheduler is the maximum
\* end_time over its building and research actions, 0 without actions.
C9_TotalTimeIsMaxEnd ==
    Returned =>
        solution.total_time_seconds =
            Max({0} \cup {a.end_time : a \in Range(solution.building_actions)}
                    \cup {a.end_time : a \in Range(solution.research_actions)})

\* the building actions of one entity, in list order
ActionsOf(sol, bt) ==
    SelectSeq(sol.building_actions, LAMBDA a : a.building_type = bt)

\* C10: in every Solution of either scheduler the building actions are in
\* start-time order and, per entity, reach initial level + 1, + 2, ... with
\* from_level = to_level - 1.
C10_LevelsStepByOne ==
    Returned =>
        /\ \A i, j \in 1..Len(solution.building_actions) :
               i < j => solution.building_actions[i].start_time
                            <= solution.building_actions[j].start_time
        /\ \A bt \in BuildingType :
               \A i \in 1..Len(ActionsOf(solution, bt)) :
                   /\ ActionsOf(solution, bt)[i].to_level =
                          LevelOf(initial_state.building_levels, bt) + i
                   /\ ActionsOf(solution, bt)[i].from_level =
                          ActionsOf(solution, bt)[i].to_level - 1

\* C11: in every Solution of CPSATDualQueueSolver.solve, each building action
\* whose (building, to_level) has a technology prerequisite is preceded by a
\* research action unlocking that technology with end_time <= its start_time,
\* also when the technology is not in the technology catalog.
C11_CPTechnologyGating ==
    CPReturned =>
        \A a \in Range(solution.building_actions) :
            RequiredTechnology(a) # NoTech =>
                \E r \in Range(solution.research_actions) :
                    /\ RequiredTechnology(a) \in r.technologies_unlocked
                    /\ r.end_time <= a.start_time

\* the intervals [start_time, end_time) of two actions do not meet
Apart(a, b) == a.end_time <= b.start_time \/ b.end_time <= a.start_time

\* the upgrades of the Library among the building actions of a Solution
LibraryBuildingActions(sol) ==
    {a \in Range(sol.building_actions) : a.building_type = "library"}

\* C12: in every Solution of CPSATDualQueueSolver.solve the building actions
\* are pairwise disjoint in time, the research actions (Library upgrades and
\* technology researches) are pairwise disjoint, and every upgrade of the
\* Library, also one that stems from LIBRARY in target_levels, is disjoint
\* from every technology research.
C12_CPQueuesDisjoint ==
    CPReturned =>
        /\ Disjoint(solution.building_actions)
        /\ Disjoint(solution.research_actions)
        /\ \A a \in LibraryBuildingActions(solution) :
               \A r \in Range(solution.research_actions) :
                   r.technologies_unlocked # {} => Apart(a, r)

\* the Library upgrades of a Solution, of either queue, as <<to_level, end_time>>
LibraryUpgrades(sol) ==
    {<<a.to_level, a.end_time>> : a \in LibraryBuildingActions(sol)}
    \cup {<<r.to_level, r.end_time>> :
             r \in {x \in Range(sol.research_actions) : x.technologies_unlocked = {}}}

\* C13: in every Solution of either scheduler, a technology whose required
\* Library level is above the initial Library level is researched only after
\* a Library upgrade reaching the required level has ended.
C13_LibraryLevelBeforeResearch ==
    Returned =>
        \A r \in Range(solution.research_actions) :
            \A t \in r.technologies_unlocked :
                LevelOf(initial_state.building_levels, "library")
                        < technologies[t].required_library_level =>
                    \E u \in LibraryUpgrades(solution) :
                        /\ u[1] >= technologies[t].required_library_level
                        /\ u[2] <= r.start_time

\* <<costs, start_time>> of every action of a Solution
CostsAndStarts(sol) ==
    {<<a.costs, a.start_time>> : a \in Range(sol.building_actions)}
    \cup {<<a.costs, a.start_time>> : a \in Range(sol.research_actions)}

\* the storage upgrades of a Solution for resource r that reach a level
\* whose capacity covers cost
StorageUpgradesFor(sol, r, cost) ==
    {u \in Range(sol.building_actions) :
        /\ u.building_type = StorageBuilding(r)
        /\ u.building_type \in DOMAIN buildings
        /\ HasLevel(buildings[u.building_type], u.to_level)
        /\ buildings[u.building_type].levels[u.to_level].storage_capacity # NONE
        /\ buildings[u.building_type].levels[u.to_level].storage_capacity >= cost}

\* C14: in every Solution of GreedySolver.solve, each action with a wood,
\* stone or iron cost above the initial storage capacity of that kind starts
\* only after a storage upgrade of that kind, reaching a level whose capacity
\* covers the cost, has ended.
C14_GreedyStorageBeforeCost ==
    GreedyReturned =>
        \A a \in CostsAndStarts(solution) :
            \A r \in {"wood", "stone", "iron"} :
                a[1][r] > CalculateStorageCapacities(initial_state.building_levels)[r] =>
                    \E u \in StorageUpgradesFor(solution, r, a[1][r]) :
                        u.end_time <= a[2]

\* every targeted entity is at or above its target in the initial state
AlreadySatisfied ==
    \A bt \in DOMAIN target_levels :
        LevelOf(initial_state.building_levels, bt) >= target_levels[bt]

AdvancesMade == Range(state.advances)

\* C16: no time advance of the greedy simulation increases the food
\* quantity, whatever the catalog (a farm with a production rate included).
C16_AdvanceNeverAddsFood ==
    solver = "greedy" =>
        \A adv \in AdvancesMade : adv.after["food"] <= adv.before["food"]

\* C17: after every time advance of the greedy simulation each quantity is
\* min(previous quantity + rate * elapsed hours, current capacity of the
\* kind), hence at most the capacity.
C17_AdvanceAccruesAndClamps ==
    solver = "greedy" =>
        \A adv \in AdvancesMade : \A r \in ResourceType :
            /\ adv.after[r] = MinOf(adv.before[r] + adv.rates[r] * adv.minutes,
                                    adv.caps[r] * Scale)
            /\ adv.after[r] <= adv.caps[r] * Scale

\* an advance over which a production would have passed the capacity
C17_Witness ==
    /\ solver = "greedy"
    /\ \E adv \in AdvancesMade : \E r \in ResourceType :
           /\ adv.rates[r] > 0
           /\ adv.before[r] <= adv.caps[r] * Scale
           /\ adv.before[r] + adv.rates[r] * adv.minutes > adv.caps[r] * Scale

\* the last iteration of solve completed an upgrade of the farm
FarmUpgradeCompleted ==
    /\ solver = "greedy"
    /\ branch = "upgrade"
    /\ state.completed_actions # <<>>
    /\ state.completed_actions[Len(state.completed_actions)].building_type = "farm"

\* the capacity of the farm level the last completed action reached
NewFarmCapacity ==
    buildings["farm"].levels[
        state.completed_actions[Len(state.completed_actions)].to_level].storage_capacity

\* C18: when a farm upgrade completes in the greedy simulation, the food
\* capacity is the capacity of the new level and the food quantity is
\* exactly that capacity, whatever it was before.
C18_FarmUpgradeRefillsFood ==
    FarmUpgradeCompleted =>
        /\ state.storage_caps["food"] = NewFarmCapacity
        /\ state.resources["food"] = NewFarmCapacity * Scale

\* a farm upgrade completed with less food than the new capacity just before
C18_Witness ==
    /\ FarmUpgradeCompleted
    /\ state.advances[Len(state.advances)].after["food"] < NewFarmCapacity * Scale

\* C19: a researched technology is never removed: the final state of every
\* Solution of either scheduler contains every technology of
\* initial_state.researched_technologies.
C19_ResearchedTechnologiesKept ==
    Returned =>
        initial_state.researched_technologies
            \subseteq solution.final_state.researched_technologies

\* C20: GameState.spend_resources takes effect only when can_afford holds:
\* called with a cost above the quantity it fails and leaves no resource
\* quantity negative.
C20_SpendNeverLeavesNegative ==
    solver = "models" => \A r \in ResourceType : game.resources[r] >= 0

\* the cost maps of the catalogs
CatalogCosts ==
    UNION {{buildings[b].levels[l].costs : l \in DOMAIN buildings[b].levels} :
           b \in DOMAIN buildings}
    \cup {technologies[t].costs : t \in DOMAIN technologies}

\* the simulation states _can_afford_or_wait_time is called in: after the
\* wait for the construction queue or for the research queue
CallStates == {WaitForBuildingQueue(state), WaitForResearchQueue(state)}

\* the kinds of which s holds less than costs asks for
Shortfalls(s, costs) == {r \in ResourceType : s.resources[r] < costs[r] * Scale}

\* C21: _can_afford_or_wait_time returns (True, 0) iff no kind has a
\* shortfall, (False, -1) iff a kind with a shortfall has a production rate
\* <= 0, and otherwise (False, w) with w > 0 such that w minutes of accrual
\* at the current rates cover every shortfall.
C21_WaitTimeContract ==
    solver = "greedy" =>
        \A s \in CallStates : \A costs \in CatalogCosts :
            LET result == CanAffordOrWaitTime(s, costs)
                short == Shortfalls(s, costs)
                barren == {r \in short : s.production_rates[r] <= 0}
            IN /\ result = <<TRUE, 0>> <=> short = {}
               /\ result = <<FALSE, -1>> <=> barren # {}
               /\ (short # {} /\ barren = {}) =>
                      /\ result[1] = FALSE
                      /\ result[2] > 0
                      /\ \A r \in ResourceType :
                             s.resources[r] + s.production_rates[r] * result[2]
                                 >= costs[r] * Scale

\* a state with all three outcomes, the wait being for a shortfall that is
\* not a whole number of minutes of production
C21_Witness ==
    /\ solver = "greedy"
    /\ \E c1, c2, c3 \in CatalogCosts :
           /\ CanAffordOrWaitTime(state, c1) = <<TRUE, 0>>
           /\ CanAffordOrWaitTime(state, c2) = <<FALSE, -1>>
           /\ CanAffordOrWaitTime(state, c3)[2] > 0
           /\ \E r \in Shortfalls(state, c3) :
                  (c3[r] * Scale - state.resources[r]) % state.production_rates[r] # 0

\* C22: the final state decoded by CPSATDualQueueSolver gives every entity
\* of target_levels the level max(initial level, target level) and leaves
\* every other entity as in the initial state: an untargeted entity keeps
\* its initial level, level 0 included, and one absent from the initial
\* state is not added.
C22_CPFinalLevels ==
    CPReturned =>
        LET final == solution.final_state.building_levels
            initial == initial_state.building_levels
        IN /\ \A bt \in DOMAIN target_levels :
                  /\ bt \in DOMAIN final
                  /\ final[bt] = MaxOf(LevelOf(initial, bt), target_levels[bt])
           /\ \A bt \in BuildingType \ DOMAIN target_levels :
                  IF bt \in DOMAIN initial
                  THEN bt \in DOMAIN final /\ final[bt] = initial[bt]
                  ELSE bt \notin DOMAIN final

\* the technology a step <<building, level>> requires, NoTech without one
StepTechnology(x) ==
    IF x[1] \in DOMAIN buildings
    THEN Get(buildings[x[1]].technology_prerequisites, x[2], NoTech)
    ELSE NoTech

\* the building, the level data and the required technology of a step are
\* all in the catalogs
StepDefined(x) ==
    /\ x[1] \in DOMAIN buildings
    /\ HasLevel(buildings[x[1]], x[2])
    /\ StepTechnology(x) # NoTech => StepTechnology(x) \in DOMAIN technologies

\* C23: neither scheduler returns a Solution when the building, the level
\* data or the required technology of a step between the current and the
\* target level of a targeted entity is missing from the catalogs.
C23_MissingDataReported ==
    Returned => \A x \in TargetedSteps : StepDefined(x)

\* the catalog duration in seconds of a building action
BuildSeconds(a) ==
    buildings[a.building_type].levels[a.to_level].build_time_seconds

\* the catalog duration in seconds of a research action: of the technology
\* it unlocks, else of the Library level it reaches
ResearchSeconds(r) ==
    IF r.technologies_unlocked # {}
    THEN technologies[CHOOSE t \in r.technologies_unlocked : TRUE].research_time_seconds
    ELSE buildings["library"].levels[r.to_level].build_time_seconds

\* C25: every action of a Solution of either scheduler lasts exactly the
\* catalog duration in seconds of its level upgrade or technology research.
C25_ActionLastsCatalogDuration ==
    Returned =>
        /\ \A a \in Range(solution.building_actions) :
               a.end_time - a.start_time = BuildSeconds(a)
        /\ \A r \in Range(solution.research_actions) :
               r.end_time - r.start_time = ResearchSeconds(r)

\* the actions of a list that start at time t, in the order of the list
StartingAt(actions, t) ==
    LET Starts(a) == a.start_time = t
    IN SelectSeq(actions, Starts)

\* C24: the list returned by Solution.get_all_actions_chronological is a
\* permutation of building_actions followed by research_actions, sorted by
\* non-decreasing start_time, in which the actions of equal start_time keep
\* the order they have in that concatenation (building actions first).
C24_ChronologicalStableSort ==
    Returned /\ chronological # <<>> =>
        LET all == solution.building_actions \o solution.research_actions
        IN /\ Len(chronological) = Len(all)
           /\ \A i \in 1..(Len(chronological) - 1) :
                  chronological[i].start_time <= chronological[i + 1].start_time
           /\ \A t \in {a.start_time : a \in Range(all)} :
                  StartingAt(chronological, t) = StartingAt(all, t)

\* C24 witness: a listing was returned for a Solution in which a research
\* action starts before a building action and another one starts together
\* with a building action.
C24_Witness ==
    /\ Returned
    /\ chronological # <<>>
    /\ \E a \in Range(solution.building_actions) :
           \E r \in Range(solution.research_actions) : r.start_time < a.start_time
    /\ \E a \in Range(solution.building_actions) :
           \E r \in Range(solution.research_actions) : r.start_time = a.start_time

\* the level of building bt once the first n completed actions are done
RECURSIVE LevelAfter(_, _)
LevelAfter(bt, n) ==
    IF n = 0 THEN LevelOf(initial_state.building_levels, bt)
    ELSE IF state.completed_actions[n].building_type = bt
         THEN state.completed_actions[n].to_level
    ELSE LevelAfter(bt, n - 1)

\* the upgrades of the step that triggered insertion ins which started after it
TriggerUpgrades(ins) ==
    {k \in (ins.actions_before + 1)..Len(state.completed_actions) :
        /\ state.completed_actions[k].building_type = ins.trigger[1]
        /\ state.completed_actions[k].to_level = ins.trigger[2]}

PriorityGroups ==
    <<[members |-> <<"lumberjack", "quarry", "ore_mine">>, interleaved |-> TRUE],
      [members |-> <<"wood_store", "stone_store", "ore_store">>, interleaved |-> TRUE],
      [members |-> <<"farm">>, interleaved |-> FALSE],
      [members |-> <<"keep", "library">>, interleaved |-> FALSE],
      [members |-> <<"arsenal", "tavern", "market", "fortifications">>,
       interleaved |-> FALSE]>>

GroupOf(bt) ==
    CHOOSE g \in 1..Len(PriorityGroups) : bt \in Range(PriorityGroups[g].members)

PlaceOf(bt) ==
    LET members == PriorityGroups[GroupOf(bt)].members
    IN CHOOSE i \in 1..Len(members) : members[i] = bt

\* step x comes before step y in the priority order
Precedes(x, y) ==
    LET gx == GroupOf(x[1])
        gy == GroupOf(y[1])
    IN IF gx # gy THEN gx < gy
       ELSE IF PriorityGroups[gx].interleaved
            THEN x[2] < y[2] \/ (x[2] = y[2] /\ PlaceOf(x[1]) < PlaceOf(y[1]))
       ELSE PlaceOf(x[1]) < PlaceOf(y[1])
            \/ (PlaceOf(x[1]) = PlaceOf(y[1]) /\ x[2] < y[2])

\* the steps of the work-list that lie above the initial level
StepsToTake ==
    LET ToTake(x) == x[2] > LevelOf(initial_state.building_levels, x[1])
    IN SelectSeq(CreatePrioritizedQueue(target_levels), ToTake)

\* the work-list holds every targeted step of a listed building once, in
\* priority order
QueueInPriorityOrder ==
    LET q == CreatePrioritizedQueue(target_levels)
    IN /\ Range(q) = {x \in BuildingType \X (2..DeepLevel) :
                         /\ x[1] \in DOMAIN target_levels
                         /\ x[1] # "castle"
                         /\ x[2] <= target_levels[x[1]]}
       /\ \A i, j \in 1..Len(q) : i < j => Precedes(q[i], q[j])

\* C27: the greedy work-list is built in the fixed priority order, and when
\* no prerequisite step is inserted the building actions of the Solution
\* are the steps of the work-list above the initial level, in that order,
\* step <<entity, L>> giving the upgrade L-1 -> L.
C27_ActionsInPriorityOrder ==
    solver = "greedy" =>
        /\ QueueInPriorityOrder
        /\ Returned /\ insertions = {} =>
               /\ Len(solution.building_actions) = Len(StepsToTake)
               /\ \A i \in 1..Len(StepsToTake) :
                      LET a == solution.building_actions[i]
                      IN /\ a.building_type = StepsToTake[i][1]
                         /\ a.to_level = StepsToTake[i][2]
                         /\ a.from_level = a.to_level - 1

\* the Library upgrades among the research actions of a Solution
FacilityUpgrades(sol) ==
    {r \in Range(sol.research_actions) : r.technologies_unlocked = {}}

InsertedFor(k) ==
    LET a == solution.building_actions[k]
    IN \E ins \in insertions :
           /\ ins.step[1] = a.building_type
           /\ ins.step[1] \in {"wood_store", "stone_store", "ore_store", "farm",
                                "library"}
           /\ ins.actions_before < k
           /\ a.to_level <= ins.step[2]

\* the Library level r reaches is required by a technology that a targeted
\* step needs
RequiredByTechnology(r) ==
    \E x \in TargetedSteps :
        /\ StepTechnology(x) \in DOMAIN technologies
        /\ r.to_level <= technologies[StepTechnology(x)].required_library_level

Exceeded(s, costs, r) ==
    IF r = "food" THEN s.resources[r] < costs[r] * Scale
    ELSE costs[r] > s.storage_caps[r]

\* the positions in ResOrder of the resources whose cost is exceeded and
\* whose storage entity is in the catalog
ExceededAt(s, costs) ==
    {i \in 1..Len(ResOrder) :
        /\ Exceeded(s, costs, ResOrder[i])
        /\ StorageBuilding(ResOrder[i]) \in DOMAIN buildings}

\* the lowest level of the catalog above the current level of bt whose
\* capacity covers cost, 0 if there is none
LowestAdequateLevel(s, bt, cost) ==
    LET ok == {l \in DOMAIN buildings[bt].levels :
                  /\ l > LevelOf(s.building_levels, bt)
                  /\ buildings[bt].levels[l].storage_capacity # NONE
                  /\ buildings[bt].levels[l].storage_capacity >= cost}
    IN IF ok = {} THEN 0 ELSE Min(ok)

\* C29: when a cost exceeds the storage capacity (for food: the food
\* there is), _check_storage_capacity names the storage entity of the first
\* such resource with the lowest level of the catalog above its current
\* level whose capacity covers the cost, whatever the number of levels.
C29_InsertedLevelIsLowestAdequate ==
    solver = "greedy" =>
        \A s \in CallStates : \A costs \in CatalogCosts :
            ExceededAt(s, costs) # {} =>
                LET r == ResOrder[Min(ExceededAt(s, costs))]
                    level == LowestAdequateLevel(s, StorageBuilding(r), costs[r])
                IN CheckStorageCapacity(s, costs) =
                       <<FALSE, IF level = 0 THEN NoStep
                                ELSE <<StorageBuilding(r), level>>>>

\* C30: in the greedy simulation a step that schedules a research leaves
\* the time at which the construction queue is free as it was, so a
\* research may run while a building is upgraded.
C30_ResearchLeavesConstructionQueue ==
    [][solver = "greedy" /\ Len(state'.research_actions) > Len(state.research_actions)
           => state'.building_queue_free_at = state.building_queue_free_at]_vars

\* C30 witness: a greedy Solution in which a research action and a building
\* action overlap in time.
C30_Witness ==
    /\ GreedyReturned
    /\ \E a \in Range(solution.building_actions) :
           \E r \in Range(solution.research_actions) :
               a.start_time < r.end_time /\ r.start_time < a.end_time

\* C31: no building action of a greedy Solution reaches a level above the
\* max_level of its entity.
C31_NoUpgradeBeyondMaxLevel ==
    GreedyReturned =>
        \A a \in Range(solution.building_actions) :
            a.to_level <= buildings[a.building_type].max_level

\* C32: the precedence constraints CPSATDualQueueSolver adds never bind a
\* task to end before its own start, and whenever every targeted step has
\* its level definition the constraints admit an assignment.
C32_PrecedencesSatisfiable ==
    (solver = "cpsat" /\ pc = "loop" /\ \A x \in TargetedSteps : StepDefined(x)) =>
        /\ \A t \in AllTasks : <<t, t>> \notin Precedences
        /\ FeasibleAssignments # {}

\* the upgrades <<entity, level reached>> of a Solution, one entry for every
\* building action and every Library upgrade of the research queue
UpgradesOf(sol) ==
    [i \in 1..Len(sol.building_actions) |->
        <<sol.building_actions[i].building_type, sol.building_actions[i].to_level>>]
    \o
    [i \in 1..Len(SelectSeq(sol.research_actions,
                            LAMBDA r : r.technologies_unlocked = {})) |->
        <<"library", SelectSeq(sol.research_actions,
                               LAMBDA r : r.technologies_unlocked = {})[i].to_level>>]

\* C33: in a Solution of CPSATDualQueueSolver every upgrade <<entity, level>>
\* occurs at most once over building_actions and research_actions together;
\* no Library level is both a construction and a research-queue upgrade.
C33_CPUpgradesOnce ==
    CPReturned =>
        \A i, j \in 1..Len(UpgradesOf(solution)) :
            i # j => UpgradesOf(solution)[i] # UpgradesOf(solution)[j]

\* C34: no research action of a Solution of either scheduler unlocks a
\* technology that initial_state.researched_technologies already holds.
C34_NoResearchOfKnownTechnology ==
    Returned =>
        \A r \in Range(solution.research_actions) :
            r.technologies_unlocked \cap initial_state.researched_technologies = {}

\* the building levels at time t of a Solution: the initial levels raised
\* by every upgrade of either action list that has ended by t
LevelsAt(sol, t) ==
    LET reached(bt) ==
            {a.to_level : a \in {x \in Range(sol.building_actions) :
                                    x.building_type = bt /\ x.end_time <= t}}
            \cup (IF bt = "library"
                  THEN {r.to_level : r \in {x \in FacilityUpgrades(sol) :
                                               x.end_time <= t}}
                  ELSE {})
    IN [bt \in DOMAIN initial_state.building_levels
                  \cup {a.building_type : a \in Range(sol.building_actions)} |->
           Max({Get(initial_state.building_levels, bt, 0)} \cup reached(bt))]

\* C35: at the start of every building action of a Solution of either
\* scheduler each building listed in Building.prerequisites for the level
\* the action reaches has its required minimum level.
C35_PrerequisitesRespected ==
    Returned =>
        \A a \in Range(solution.building_actions) :
            PrerequisitesMet(buildings[a.building_type], a.to_level,
                             LevelsAt(solution, a.start_time))

\* the number of upgrade actions a Solution records for entity bt, over
\* building_actions and the Library upgrades of research_actions
UpgradeCount(sol, bt) ==
    Cardinality({i \in 1..Len(UpgradesOf(sol)) : UpgradesOf(sol)[i][1] = bt})

\* C36: in every Solution of either scheduler the final_state level of
\* every entity is its initial level plus the number of upgrade actions the
\* Solution records for it.
C36_FinalLevelCountsActions ==
    Returned =>
        \A bt \in DOMAIN solution.final_state.building_levels
                  \cup DOMAIN initial_state.building_levels :
            Get(solution.final_state.building_levels, bt, 0)
                = Get(initial_state.building_levels, bt, 0)
                      + UpgradeCount(solution, bt)

\* C37: in the greedy simulation a completed upgrade takes effect at its
\* end time only: the time advance over its build interval uses the
\* production rates and storage caps in force before the upgrade, the
\* entity is at the level before the upgrade until then, and its level is
\* raised when simulated time has reached the action's end_time.
C37_UpgradeTakesEffectAtEnd ==
    [][(solver = "greedy"
        /\ Len(state'.completed_actions) > Len(state.completed_actions)) =>
           LET a == state'.completed_actions[Len(state'.completed_actions)]
               adv == state'.advances[Len(state'.advances)]
           IN /\ adv.minutes * 60 = a.end_time - a.start_time
              /\ adv.rates = state.production_rates
              /\ adv.caps = state.storage_caps
              /\ LevelOf(state.building_levels, a.building_type) = a.from_level
              /\ state.time_minutes * 60 <= a.start_time
              /\ LevelOf(state'.building_levels, a.building_type) = a.to_level
              /\ state'.time_minutes * 60 = a.end_time]_vars

\* the simulated time, in minutes, at which the i-th time advance began
RECURSIVE AdvanceStart(_, _)
AdvanceStart(advs, i) ==
    IF i <= 1 THEN 0 ELSE AdvanceStart(advs, i - 1) + advs[i - 1].minutes

\* C37 witness: a greedy Solution with a producer upgrade that raised the
\* production rate and over whose build interval the resource accrued at
\* the lower rate of the level before.
C37_Witness ==
    /\ GreedyReturned
    /\ \E a \in Range(solution.building_actions) :
           \E i \in 1..Len(state.advances) :
               LET adv == state.advances[i]
                   r == ProducedResource(a.building_type)
               IN /\ a.building_type = "lumberjack"
                  /\ AdvanceStart(state.advances, i) * 60 = a.start_time
                  /\ adv.minutes * 60 = a.end_time - a.start_time
                  /\ adv.rates[r] > 0
                  /\ adv.rates[r] <
                         buildings[a.building_type].levels[a.to_level].production_rate
                  /\ adv.after[r] = adv.before[r] + adv.rates[r] * adv.minutes

\* C38: no time advance of the greedy simulation decreases the quantity of
\* a resource kind, an initial quantity above the storage capacity
\* included, and no advance moves simulated time backwards.
C38_AdvanceNeverDecreases ==
    solver = "greedy" =>
        \A adv \in AdvancesMade :
            /\ adv.minutes >= 0
            /\ \A r \in ResourceType : adv.after[r] >= adv.before[r]

\* C39: the two implementations of the transition model agree: on the
\* levels of a GameState get_production_rates returns the rates of
\* _calculate_production_rates, and update_resources leaves the quantities
\* that _advance_time leaves after the same duration.
C39_TransitionModelsAgree ==
    [][(solver = "models" /\ game'.time_elapsed > game.time_elapsed) =>
           LET minutes == (game'.time_elapsed - game.time_elapsed) \div 60
           IN /\ GetProductionRates(game)
                     = CalculateProductionRates(game.building_levels)
              /\ game'.resources
                     = AdvanceTime(InitialSimulationState(game), minutes).resources]_vars

====
